---- MODULE Spec2Model ----
(***************************************************************************)
(* A model of the 8086 MOV disassembler of src/src/main.rs.               *)
(*                                                                         *)
(* The program loads a binary into a cursor, prints "bits 16" and then     *)
(* runs one loop: print a newline, read an opcode byte, classify it and    *)
(* decode/print one of seven MOV forms (three implemented, four            *)
(* placeholders), or skip the byte.  Standard output is modelled as the    *)
(* string of characters written so far, the cursor as the number of bytes  *)
(* consumed.  Every loop iteration is one action.                          *)
(***************************************************************************)
EXTENDS Integers, Sequences, FiniteSets, TLC

VARIABLES
    input,  \* the bytes of the binary (load_binary's result), a sequence of 0..255
    pos,    \* the cursor position: number of bytes consumed
    out,    \* everything written to standard output so far
    pc,     \* "loop" | "done" (Ok(())) | "error" (Err from `?`) | "panic" | "unit"
    last,   \* history: what the last loop iteration decoded (see NoLast)
    lines,  \* history: the instruction texts of the iterations that completed
    call    \* history: the last call of get_displacement, its arguments and result

vars == <<input, pos, out, pc, last, lines, call>>

(***************************************************************************)
(* Bounds of the model.                                                    *)
(***************************************************************************)
\* longest input drawn byte by byte from InputBytes
MaxLen == 4
\* get_displacement is applied to every value in -MaxDisp..MaxDisp (and to the
\* extreme values listed in Values)
MaxDisp == 2

(***************************************************************************)
(* enum ModField                                                           *)
(***************************************************************************)
MemoryNoDisplacement == 0
MemoryDisplacement8bit == 1
MemoryDisplacement16bit == 2
RegisterNoDisplacement == 3

\* markers for the two ways a call can panic
Unreachable == "!unreachable"
Overflow == "!overflow"

IsPanic(s) == s = Unreachable \/ s = Overflow

(***************************************************************************)
(* enum Registers with #[derive(Debug)]: format!("{:?}", reg) of the       *)
(* value transmuted from `key`.  A key outside 0..15 is no variant.        *)
(***************************************************************************)
Registers ==
    << "al", "cl", "dl", "bl", "ah", "ch", "dh", "bh",
       "ax", "cx", "dx", "bx", "sp", "bp", "si", "di" >>

RegisterName(key) ==
    IF key \in 0..15 THEN Registers[key + 1] ELSE Unreachable

(***************************************************************************)
(* Integer conversions of byteorder's read_i8 / read_i16::<LittleEndian>.  *)
(***************************************************************************)
I8(b) == IF b >= 128 THEN b - 256 ELSE b

I16(lo, hi) ==
    LET u == lo + 256 * hi IN IF u >= 32768 THEN u - 65536 ELSE u

\* format!("{}", v) of an integer
Fmt(v) == ToString(v)

\* i16::abs: overflows on i16::MIN; with overflow checks (debug build) it
\* panics, without them (release build) it returns i16::MIN
I16Abs(value, overflow_checks) ==
    IF value = -32768
    THEN (IF overflow_checks THEN Overflow ELSE Fmt(value))
    ELSE IF value < 0 THEN Fmt(0 - value) ELSE Fmt(value)

(***************************************************************************)
(* fn get_displacement(mode, rm, value) -> String                          *)
(* overflow_checks is the build's setting, which decides value.abs().      *)
(***************************************************************************)
value_str(value, overflow_checks) ==
    IF value >= 0
    THEN "+ " \o Fmt(value)
    ELSE LET a == I16Abs(value, overflow_checks)
         IN IF IsPanic(a) THEN a ELSE "- " \o a

get_displacement(mode, rm, value, overflow_checks) ==
    IF mode = MemoryNoDisplacement
    THEN CASE rm = 0 -> "[bx + si]"
           [] rm = 1 -> "[bx + di]"
           [] rm = 2 -> "[bp + si]"
           [] rm = 3 -> "[bp + di]"
           [] rm = 4 -> "[si]"
           [] rm = 5 -> "[di]"
           [] rm = 6 /\ value = 0 -> "[bp]"
           [] rm = 6 /\ value # 0 -> "[" \o Fmt(value) \o "]"
           [] rm = 7 -> "[bx]"
           [] OTHER -> Unreachable
    ELSE IF mode = MemoryDisplacement16bit \/ mode = MemoryDisplacement8bit
    THEN LET vs == value_str(value, overflow_checks)
         IN IF IsPanic(vs) THEN vs
            ELSE CASE rm = 0 -> "[bx + si " \o vs \o "]"
                   [] rm = 1 -> "[bx + di " \o vs \o "]"
                   [] rm = 2 -> "[bp + si " \o vs \o "]"
                   [] rm = 3 -> "[bp + di " \o vs \o "]"
                   [] rm = 4 -> "[si " \o vs \o "]"
                   [] rm = 5 -> "[di " \o vs \o "]"
                   [] rm = 6 /\ value = 0 -> "[bp]"
                   [] rm = 6 /\ value # 0 -> "[" \o Fmt(value) \o "]"
                   [] rm = 7 -> "[bx " \o vs \o "]"
                   [] OTHER -> Unreachable
    ELSE Unreachable

(***************************************************************************)
(* The cursor: read_u8 / read_i8 / read_i16 succeed when the bytes are     *)
(* there and fail with UnexpectedEof otherwise.                            *)
(***************************************************************************)
CanRead(p, n) == p + n <= Len(input)

ByteAt(p) == input[p + 1]

ReadI8(p) == I8(ByteAt(p))

ReadI16(p) == I16(ByteAt(p), ByteAt(p + 1))

(***************************************************************************)
(* History records.                                                        *)
(***************************************************************************)
NoLast ==
    [ form   |-> "none",  \* which branch of the loop ran
      start  |-> 0,       \* cursor position when the iteration began
      out0   |-> "",      \* output when the iteration began
      w      |-> -1,      \* w_field
      d      |-> -1,      \* d_field
      mode   |-> -1,      \* raw value transmuted to ModField
      reg    |-> -1,      \* raw 3-bit reg selector
      rm     |-> -1,      \* rm
      value  |-> 0,       \* value / displacement_value
      data   |-> 0,       \* data (second read of the immediate form)
      tmodes |-> {},      \* raw values transmuted to ModField
      tkeys  |-> {},      \* raw values transmuted to Registers
      regs   |-> {},      \* register operands printed: <<w, selector, name>>
      ops    |-> <<>>,    \* the two operands in the order printed
      why    |-> "" ]     \* "eof", "unreachable" or "overflow" when the run ended

NoCall == [called |-> FALSE, mode |-> 0, rm |-> 0, value |-> 0, result |-> ""]

Called(mode, rm, value, result) ==
    [called |-> TRUE, mode |-> mode, rm |-> rm, value |-> value, result |-> result]

\* a failed operand read treated like the opcode read's `Err(_) => break`
EofSwallowed(p, o, l, c) ==
    [pc |-> "done", pos |-> p, out |-> o, last |-> [l EXCEPT !.why = "eof"],
     call |-> c, text |-> ""]

\* a read failed at position p: `?` returns the error from main
Eof(p, o, l, c) ==
    [pc |-> "error", pos |-> p, out |-> o, last |-> [l EXCEPT !.why = "eof"],
     call |-> c, text |-> ""]

\* a panic (unreachable!() or arithmetic overflow)
Panic(p, o, l, c, marker) ==
    [pc |-> "panic", pos |-> p, out |-> o,
     last |-> [l EXCEPT !.why = IF marker = Overflow THEN "overflow" ELSE "unreachable"],
     call |-> c, text |-> ""]

\* the iteration completed, having printed `text` after the newline
Decoded(p, o, l, c, text) ==
    [pc |-> "loop", pos |-> p, out |-> o, last |-> l, call |-> c, text |-> text]

(***************************************************************************)
(* Bit fields of the ModRM byte.                                           *)
(***************************************************************************)
\* the mask one bit too wide
RmFieldWide(next_byte) == next_byte % 16

RmField(next_byte) == next_byte % 8

ModBits(next_byte) == next_byte \div 64

RegBits(next_byte) == (next_byte \div 8) % 8

(***************************************************************************)
(* Opcode classification, in the order of the if / else if chain.          *)
(***************************************************************************)
Classify(opcode) ==
    IF opcode \div 4 = 34 THEN "regmem"             \* 0b100010
    ELSE IF opcode \div 2 = 99 THEN "immrm"         \* 0b1100011
    ELSE IF opcode \div 16 = 11 THEN "immreg"       \* 0b1011
    ELSE IF opcode \div 2 = 80 THEN "memacc"        \* 0b1010000
    ELSE IF opcode \div 2 = 81 THEN "accmem"        \* 0b1010001
    ELSE IF opcode = 142 THEN "rmseg"               \* 0b10001110
    ELSE IF opcode = 140 THEN "segrm"               \* 0b10001100
    ELSE "unrecognized"

(***************************************************************************)
(* MOV - Register/memory to/from register.                                 *)
(***************************************************************************)
\* number of bytes the `value` match reads
ValueBytes(mode, rm) ==
    IF mode = MemoryDisplacement8bit THEN 1
    ELSE IF mode = MemoryDisplacement16bit THEN 2
    ELSE IF mode = MemoryNoDisplacement /\ rm = 6 THEN 2
    ELSE 0

ReadValue(mode, rm, p) ==
    IF mode = MemoryDisplacement8bit THEN ReadI8(p)
    ELSE IF mode = MemoryDisplacement16bit THEN ReadI16(p)
    ELSE IF mode = MemoryNoDisplacement /\ rm = 6 THEN ReadI16(p)
    ELSE 0

\* match d_field: the pair bound to (source, destination), which is printed
\* in that order by print!("{}, {}", source, destination)
OperandPair(d_field, reg, rmop) ==
    IF d_field = 0 THEN <<rmop, reg>>
    ELSE IF d_field = 1 THEN <<reg, rmop>>
    ELSE <<Unreachable, Unreachable>>

RegMem(opcode, overflow_checks) ==
    LET w_field == opcode % 2
        d_field == (opcode \div 2) % 2
        out1 == out \o "\n"
        p1 == pos + 1
        l0 == [NoLast EXCEPT !.form = "regmem", !.start = pos, !.out0 = out,
                             !.w = w_field, !.d = d_field]
    IN
    IF ~CanRead(p1, 1) THEN Eof(p1, out1, l0, NoCall)
    ELSE
    LET next_byte == ByteAt(p1)
        rm == RmField(next_byte)
        mode == ModBits(next_byte)
        reg == w_field * 8 + RegBits(next_byte)
        p2 == p1 + 1
        out2 == out1 \o "mov "
        l1 == [l0 EXCEPT !.mode = mode, !.rm = rm, !.reg = RegBits(next_byte),
                         !.tmodes = {mode}, !.tkeys = {reg}]
        n == ValueBytes(mode, rm)
    IN
    IF ~CanRead(p2, n) THEN Eof(p2, out2, l1, NoCall)
    ELSE
    LET value == ReadValue(mode, rm, p2)
        p3 == p2 + n
        l2 == [l1 EXCEPT !.value = value]
        isreg == mode = RegisterNoDisplacement
        ismem == mode \in {MemoryNoDisplacement, MemoryDisplacement8bit,
                           MemoryDisplacement16bit}
        other_reg == w_field * 8 + rm
        displacement == get_displacement(mode, rm, value, overflow_checks)
        c == IF ismem THEN Called(mode, rm, value, displacement) ELSE NoCall
        rmop == IF isreg THEN RegisterName(other_reg) ELSE displacement
        pair == OperandPair(d_field, RegisterName(reg), rmop)
        l3 == [l2 EXCEPT !.tkeys = IF isreg THEN {reg, other_reg} ELSE {reg},
                         !.regs = {<<w_field, RegBits(next_byte), RegisterName(reg)>>}
                                  \cup (IF isreg
                                        THEN {<<w_field, rm, RegisterName(other_reg)>>}
                                        ELSE {}),
                         !.ops = pair]
        text == "mov " \o pair[1] \o ", " \o pair[2]
    IN
    IF ~(isreg \/ ismem) THEN Panic(p3, out2, l2, NoCall, Unreachable)
    ELSE IF ismem /\ IsPanic(displacement) THEN Panic(p3, out2, l2, c, displacement)
    ELSE IF IsPanic(pair[1]) \/ IsPanic(pair[2]) THEN Panic(p3, out2, l3, c, Unreachable)
    ELSE Decoded(p3, out1 \o text, l3, c, text)

(***************************************************************************)
(* MOV - Immediate to register/memory.                                     *)
(***************************************************************************)
\* match w_field { 0 => "byte {}", 1 => "word {}", _ => unreachable!() }
ValueStr(w_field, v) ==
    IF w_field = 0 THEN "byte " \o Fmt(v)
    ELSE IF w_field = 1 THEN "word " \o Fmt(v)
    ELSE Unreachable

\* bytes read by one w_field-sized read (read_i8 or read_i16)
WidthBytes(w_field) == IF w_field = 0 THEN 1 ELSE 2

ReadWidth(w_field, p) == IF w_field = 0 THEN ReadI8(p) ELSE ReadI16(p)

ImmRegMem(opcode, overflow_checks) ==
    LET out1 == (out \o "\n") \o "mov "
        w_field == opcode % 2
        p1 == pos + 1
        l0 == [NoLast EXCEPT !.form = "immrm", !.start = pos, !.out0 = out,
                             !.w = w_field]
    IN
    IF ~CanRead(p1, 1) THEN Eof(p1, out1, l0, NoCall)
    ELSE
    LET next_byte == ByteAt(p1)
        rm == RmField(next_byte)
        mod_field == ModBits(next_byte)
        mode == mod_field
        p2 == p1 + 1
        n == WidthBytes(w_field)
        l1 == [l0 EXCEPT !.mode = mode, !.rm = rm, !.tmodes = {mode}]
    IN
    IF ~CanRead(p2, n) THEN Eof(p2, out1, l1, NoCall)
    ELSE
    LET displacement_value == ReadWidth(w_field, p2)
        p3 == p2 + n
        l2 == [l1 EXCEPT !.value = displacement_value]
    IN
    IF mode = RegisterNoDisplacement
    THEN \* the register is transmuted from rm alone
         LET reg == rm
             vstr == ValueStr(w_field, displacement_value)
             l3 == [l2 EXCEPT !.tkeys = {reg},
                              !.regs = {<<w_field, rm, RegisterName(reg)>>},
                              !.data = displacement_value,
                              !.ops = <<RegisterName(reg), vstr>>]
             text == "mov " \o RegisterName(reg) \o ", " \o vstr
         IN IF IsPanic(vstr) \/ IsPanic(RegisterName(reg))
            THEN Panic(p3, out1, l3, NoCall, Unreachable)
            ELSE Decoded(p3, (out \o "\n") \o text, l3, NoCall, text)
    ELSE
    LET displacement == get_displacement(mode, rm, displacement_value, overflow_checks)
        c == Called(mode, rm, displacement_value, displacement)
    IN
    IF IsPanic(displacement) THEN Panic(p3, out1, l2, c, displacement)
    ELSE IF mode = MemoryNoDisplacement
    THEN LET vstr == ValueStr(w_field, displacement_value)
             l3 == [l2 EXCEPT !.data = displacement_value,
                              !.ops = <<displacement, vstr>>]
             text == "mov " \o displacement \o ", " \o vstr
         IN IF IsPanic(vstr) THEN Panic(p3, out1, l3, c, Unreachable)
            ELSE Decoded(p3, (out \o "\n") \o text, l3, c, text)
    ELSE \* the two displacement modes read a second value of the same width
    IF ~CanRead(p3, n) THEN Eof(p3, out1, l2, c)
    ELSE
    LET data == ReadWidth(w_field, p3)
        p4 == p3 + n
        vstr == ValueStr(w_field, data)
        l3 == [l2 EXCEPT !.data = data, !.ops = <<displacement, vstr>>]
        text == "mov " \o displacement \o ", " \o vstr
    IN IF IsPanic(vstr) THEN Panic(p4, out1, l3, c, Unreachable)
       ELSE Decoded(p4, (out \o "\n") \o text, l3, c, text)

(***************************************************************************)
(* MOV - Immediate to register.                                            *)
(***************************************************************************)
ImmReg(opcode) ==
    LET w_field == (opcode \div 8) % 2
        sel == opcode % 8
        reg == w_field * 8 + sel
        head == ("mov " \o RegisterName(reg)) \o ", "
        out1 == (out \o "\n") \o head
        p1 == pos + 1
        n == WidthBytes(w_field)
        l0 == [NoLast EXCEPT !.form = "immreg", !.start = pos, !.out0 = out,
                             !.w = w_field, !.reg = sel, !.tkeys = {reg},
                             !.regs = {<<w_field, sel, RegisterName(reg)>>}]
    IN
    IF IsPanic(RegisterName(reg)) THEN Panic(p1, out \o "\n", l0, NoCall, Unreachable)
    ELSE IF ~CanRead(p1, n) THEN Eof(p1, out1, l0, NoCall)
    ELSE
    LET v == ReadWidth(w_field, p1)
        l1 == [l0 EXCEPT !.data = v, !.ops = <<RegisterName(reg), Fmt(v)>>]
        text == head \o Fmt(v)
    IN Decoded(p1 + n, (out \o "\n") \o text, l1, NoCall, text)

(***************************************************************************)
(* The four unimplemented forms: println! of a placeholder.                *)
(***************************************************************************)
PlaceholderText(form) ==
    CASE form = "memacc" -> "mov ;Memory to accumulator"
      [] form = "accmem" -> "mov ;Accumulator to memory"
      [] form = "rmseg" -> "mov ;Register/memory to segment register"
      [] form = "segrm" -> "mov ;Segment register to register/memory"

Placeholder(form) ==
    LET text == PlaceholderText(form)
    IN Decoded(pos + 1, ((out \o "\n") \o text) \o "\n",
               [NoLast EXCEPT !.form = form, !.start = pos, !.out0 = out,
                              !.ops = <<text>>],
               NoCall, text)

(***************************************************************************)
(* The state after println!("bits 16"), with the binary loaded.            *)
(***************************************************************************)
\* bytes the inputs are drawn from: every opcode form, every addressing mode
\* as a ModRM byte, and zero, positive and negative data
InputBytes ==
    { 0,    \* 0x00 unrecognized; ModRM mod=00 rm=000; data 0
      6,    \* 0x06 unrecognized; ModRM mod=00 rm=110
      70,   \* 0x46 unrecognized; ModRM mod=01 rm=110
      137,  \* 0x89 reg/mem d=0 w=1; ModRM mod=10 reg=001 rm=001
      138,  \* 0x8A reg/mem d=1 w=0; ModRM mod=10 reg=001 rm=010
      198,  \* 0xC6 immediate to reg/mem w=0; ModRM mod=11 rm=110
      199,  \* 0xC7 immediate to reg/mem w=1; ModRM mod=11 rm=111
      184,  \* 0xB8 immediate to register w=1; ModRM mod=10 reg=111 rm=000
      160,  \* 0xA0 memory to accumulator
      142 } \* 0x8E register/memory to segment register; ModRM mod=10 rm=110

RECURSIVE SeqsUpTo(_)
SeqsUpTo(n) ==
    IF n = 0 THEN {<<>>}
    ELSE LET shorter == SeqsUpTo(n - 1)
         IN shorter \cup {Append(s, b) : s \in {t \in shorter : Len(t) = n - 1},
                                           b \in InputBytes}

\* longer instructions, byte for byte
Examples ==
    { <<137, 216>>,                   \* mov ax, bx
      <<184, 5, 0>>,                  \* mov ax, 5
      <<177, 251>>,                   \* mov cl, -5
      <<177>>,                        \* truncated mov cl, imm8
      <<162, 137, 216, 140>>,         \* accumulator to memory, mov ax, bx, segment
      <<140, 162>>,                   \* the two other placeholders
      <<139, 6, 232, 3>>,             \* mov ax, [1000]
      <<198, 6, 232, 3, 7>>,          \* mov byte [1000], 7
      <<199, 6, 232, 3, 7, 0>>,       \* mov word [1000], 7
      <<198, 133, 133, 3, 7>>,        \* mov byte [di + 901], 7
      <<199, 70, 5, 10, 0>>,          \* mov word [bp + 5], 10
      <<199, 133, 133, 3, 91, 1>>,    \* mov word [di + 901], 347
      <<199, 193, 12, 0, 137, 216>>,  \* mov cx, 12 ; mov ax, bx
      <<139, 128, 0, 128>> }          \* mov ax, [bx + si - 32768]

Inputs == SeqsUpTo(MaxLen) \cup Examples

Init ==
    /\ input \in Inputs
    /\ pos = 0
    /\ out = "bits 16\n"
    /\ pc = "loop"
    /\ last = NoLast
    /\ lines = <<>>
    /\ call = NoCall

(***************************************************************************)
(* One iteration of 'main: loop.                                           *)
(***************************************************************************)
Commit(r) ==
    /\ pc' = r.pc
    /\ pos' \in (IF r.pc = "error" THEN {r.pos, Len(input)} ELSE {r.pos})
    /\ out' = r.out
    /\ last' = r.last
    /\ call' = r.call
    /\ lines' = IF r.pc = "loop" /\ r.text # "" THEN Append(lines, r.text) ELSE lines
    /\ UNCHANGED input

Running == pc = "loop" /\ pos < Len(input)

\* Err(_) => break, then Ok(())
EndOfInput ==
    /\ pc = "loop"
    /\ pos = Len(input)
    /\ pc' = "done"
    /\ out' = out \o "\n"
    /\ last' = [NoLast EXCEPT !.form = "end", !.start = pos, !.out0 = out]
    /\ call' = NoCall
    /\ UNCHANGED <<input, pos, lines>>

MovRegMem ==
    /\ Running
    /\ Classify(ByteAt(pos)) = "regmem"
    /\ \E overflow_checks \in BOOLEAN : Commit(RegMem(ByteAt(pos), overflow_checks))

MovImmRegMem ==
    /\ Running
    /\ Classify(ByteAt(pos)) = "immrm"
    /\ \E overflow_checks \in BOOLEAN : Commit(ImmRegMem(ByteAt(pos), overflow_checks))

MovImmReg ==
    /\ Running
    /\ Classify(ByteAt(pos)) = "immreg"
    /\ Commit(ImmReg(ByteAt(pos)))

MovMemToAcc ==
    /\ Running
    /\ Classify(ByteAt(pos)) = "memacc"
    /\ Commit(Placeholder("memacc"))

MovAccToMem ==
    /\ Running
    /\ Classify(ByteAt(pos)) = "accmem"
    /\ Commit(Placeholder("accmem"))

MovRmToSeg ==
    /\ Running
    /\ Classify(ByteAt(pos)) = "rmseg"
    /\ Commit(Placeholder("rmseg"))

MovSegToRm ==
    /\ Running
    /\ Classify(ByteAt(pos)) = "segrm"
    /\ Commit(Placeholder("segrm"))

\* no branch matches: the iteration has printed its newline and read one byte
Unrecognized ==
    /\ Running
    /\ Classify(ByteAt(pos)) = "unrecognized"
    /\ Commit(Decoded(pos + 1, out \o "\n",
                      [NoLast EXCEPT !.form = "unrecognized", !.start = pos,
                                     !.out0 = out],
                      NoCall, ""))

Next ==
    \/ EndOfInput
    \/ MovRegMem
    \/ MovImmRegMem
    \/ MovImmReg
    \/ MovMemToAcc
    \/ MovAccToMem
    \/ MovRmToSeg
    \/ MovSegToRm
    \/ Unrecognized

Spec == Init /\ [][Next]_vars

(***************************************************************************)
(* get_displacement on its own: every mode that names memory, every r/m    *)
(* selector, and a range of displacement values with the extremes.         *)
(***************************************************************************)
Values == (-MaxDisp .. MaxDisp) \cup {127, -128, 1000, 32767, -32768}

InitGD ==
    /\ input = <<>>
    /\ pos = 0
    /\ out = ""
    /\ pc = "unit"
    /\ last = NoLast
    /\ lines = <<>>
    /\ call \in { [NoCall EXCEPT !.mode = m, !.rm = r, !.value = v] :
                    m \in {MemoryNoDisplacement, MemoryDisplacement8bit,
                           MemoryDisplacement16bit},
                    r \in 0..7, v \in Values }

GetDisplacement ==
    /\ pc = "unit"
    /\ ~call.called
    /\ \E overflow_checks \in BOOLEAN :
         call' = Called(call.mode, call.rm, call.value,
                        get_displacement(call.mode, call.rm, call.value,
                                         overflow_checks))
    /\ UNCHANGED <<input, pos, out, pc, last, lines>>

NextGD == GetDisplacement

SpecGD == InitGD /\ [][NextGD]_vars

(***************************************************************************)
(* What the specification says, for the properties below.                  *)
(***************************************************************************)
ByteRegs == << "al", "cl", "dl", "bl", "ah", "ch", "dh", "bh" >>
WordRegs == << "ax", "cx", "dx", "bx", "sp", "bp", "si", "di" >>

\* the register of the 16-name table for {width bit, 3-bit selector}
TableReg(w, sel) == IF w = 0 THEN ByteRegs[sel + 1] ELSE WordRegs[sel + 1]

\* the eight base/index expressions
BaseIndex ==
    << "bx + si", "bx + di", "bp + si", "bp + di", "si", "di", "bp", "bx" >>

\* displacement bytes by addressing mode alone
ModeDispBytes(mode, rm) ==
    IF mode = 1 THEN 1
    ELSE IF mode = 2 THEN 2
    ELSE IF mode = 0 /\ rm = 6 THEN 2
    ELSE 0

\* the last iteration got as far as the ModRM byte
HasModRM == last.mode # -1

\* one blank line and one instruction line per instruction
RECURSIVE Layout(_)
Layout(ls) ==
    IF ls = <<>> THEN ""
    ELSE (("\n" \o Head(ls)) \o "\n") \o Layout(Tail(ls))

\* "+ N" or "- N", N the absolute value
SignedSuffix(value) ==
    IF value >= 0 THEN "+ " \o ToString(value) ELSE "- " \o ToString(0 - value)

\* the r/m operand of the last register/memory instruction, and its line
\* with the operands in the order the direction bit asks for
RmOperand == IF last.mode = 3 THEN TableReg(last.w, last.rm) ELSE call.result

DirectedLine ==
    IF last.d = 1
    THEN (("mov " \o TableReg(last.w, last.reg)) \o ", ") \o RmOperand
    ELSE (("mov " \o RmOperand) \o ", ") \o TableReg(last.w, last.reg)

(***************************************************************************)
(* C1: for every immediate-to-register/memory instruction with all its     *)
(* bytes present, the bytes consumed after the opcode are 1 + D + I, with  *)
(* D fixed by the addressing mode alone and I by the width bit alone, so   *)
(* the next opcode is read at start + 2 + D + I.                           *)
(***************************************************************************)
C1_ImmediateLength ==
    (last.form = "immrm" /\ HasModRM
       /\ last.start + 2 + ModeDispBytes(last.mode, last.rm) + (last.w + 1)
            <= Len(input))
    => (pc = "loop"
        /\ pos = last.start + 2 + ModeDispBytes(last.mode, last.rm) + (last.w + 1))

(***************************************************************************)
(* C2: when end-of-input is reached while reading a byte an already        *)
(* classified instruction requires, the run ends with an error and no      *)
(* part of that instruction's line has been written (the output is what    *)
(* it was when the iteration began, the iteration's newline at most).      *)
(***************************************************************************)
C2_NoPartialLine ==
    (last.why = "eof")
    => (pc = "error" /\ (out = last.out0 \/ out = last.out0 \o "\n"))

(***************************************************************************)
(* C3: for every input that decodes without error the output is "bits 16"  *)
(* once, then for each decoded or placeholder instruction one blank line   *)
(* and one instruction line, and nothing else.                             *)
(***************************************************************************)
C3_OutputLayout ==
    (pc = "done") => (out = "bits 16\n" \o Layout(lines))

(***************************************************************************)
(* C4: in the two displacement modes get_displacement renders the          *)
(* selector's base/index expression followed by "+ N" (value >= 0) or      *)
(* "- N" (value < 0), N the absolute value; only selector 110 with value   *)
(* 0 renders "[bp]".                                                       *)
(***************************************************************************)
C4_DisplacementSuffix ==
    (call.called /\ call.mode \in {1, 2})
    => (call.result =
          IF call.rm = 6 /\ call.value = 0 THEN "[bp]"
          ELSE ((("[" \o BaseIndex[call.rm + 1]) \o " ") \o SignedSuffix(call.value)) \o "]")

(***************************************************************************)
(* C5: in no-displacement mode the selectors other than 110 render the     *)
(* fixed base/index table, and selector 110 consumes the following 16-bit  *)
(* value v and renders "[v]", for every v.  Stated for the register/memory *)
(* form with all its bytes present.                                        *)
(***************************************************************************)
C5_NoDisplacementTable ==
    (last.form = "regmem" /\ last.mode = 0
       /\ last.start + 2 + ModeDispBytes(0, last.rm) <= Len(input))
    => /\ pc = "loop"
       /\ pos = last.start + 2 + ModeDispBytes(0, last.rm)
       /\ call.called
       /\ call.result =
            IF last.rm = 6
            THEN ("[" \o ToString(I16(input[last.start + 3], input[last.start + 4])))
                 \o "]"
            ELSE ("[" \o BaseIndex[last.rm + 1]) \o "]"

(***************************************************************************)
(* C6: every register operand printed by an implemented form is the entry  *)
(* of the 16-name table for {width bit of the instruction, selector}.      *)
(***************************************************************************)
C6_RegisterTable ==
    \A r \in last.regs : r[3] = TableReg(r[1], r[2])

(***************************************************************************)
(* C7: for every complete register/memory-to-register instruction the      *)
(* emitted line is "mov <dest>, <src>": with d = 1 the reg-field register  *)
(* is the destination and the r/m operand the source, with d = 0 the       *)
(* other way round; 0x89 0xD8 gives "mov ax, bx".                          *)
(***************************************************************************)
C7_DirectionOrder ==
    (last.form = "regmem" /\ HasModRM
       /\ last.start + 2 + ModeDispBytes(last.mode, last.rm) <= Len(input))
    => /\ pc = "loop"
       /\ out = (last.out0 \o "\n") \o DirectedLine
       /\ (input = <<137, 216>> => out = "bits 16\n\nmov ax, bx")

\* the order of the operands in every line this form does emit
C7_OrderWhenEmitted ==
    (last.form = "regmem" /\ pc = "loop")
    => (out = (last.out0 \o "\n") \o DirectedLine)

(***************************************************************************)
(* C8: an opcode byte that matches none of the seven patterns advances     *)
(* the cursor by one byte, raises no error and leaves the output           *)
(* unchanged.                                                              *)
(***************************************************************************)
C8_UnrecognizedSilent ==
    (last.form = "unrecognized")
    => (pc = "loop" /\ pos = last.start + 1 /\ out = last.out0)

(***************************************************************************)
(* C9: the decode loop terminates: the cursor never decreases, every       *)
(* iteration that does not end the run advances it by at least one byte,   *)
(* and the run ends normally exactly when the read of the next opcode      *)
(* byte fails at end-of-input.  Termination is stated by its variant:      *)
(* only a running loop takes a step, the cursor stays within the input,    *)
(* and it grows with every iteration that continues the loop, so a run     *)
(* has at most Len(input) + 1 iterations.                                  *)
(***************************************************************************)
C9_Terminates ==
    [][ /\ pc = "loop"
        /\ pos' >= pos
        /\ pos' <= Len(input)
        /\ (pc' = "loop" => pos' > pos)
        /\ (pc' = "done" <=> pos = Len(input)) ]_vars

C9_Witness ==
    pc = "done" /\ pos = Len(input) /\ Len(lines) >= 2 /\ Len(input) = MaxLen

(***************************************************************************)
(* C10: every raw value reinterpreted as an enumeration is in range,       *)
(* get_displacement is never called with the register-direct mode or an    *)
(* r/m above 7, and no unreachable!() arm is reached.                      *)
(***************************************************************************)
C10_EnumsInRange ==
    /\ last.tmodes \subseteq 0..3
    /\ last.tkeys \subseteq 0..15
    /\ call.called => /\ call.mode \in 0..2
                      /\ call.rm \in 0..7
                      /\ call.result # Unreachable
    /\ last.why # "unreachable"

C10_Witness ==
    /\ call.called
    /\ call.mode = 2
    /\ last.form = "immrm"
    /\ last.tmodes = {2}
    /\ pc = "loop"

====
